---- MODULE Spec2Model ----
(***************************************************************************)
(* A model of the metrics engine of romusha: the label parser and the      *)
(* exposition parser of src/src/nusacontact-exporter.ts, the renderers and *)
(* the two file writers of src/src/nusacontact-exporter.ts and             *)
(* src/src/gamas-exporter.ts.                                              *)
(*                                                                         *)
(* A JavaScript string is a sequence of one-character strings, so that     *)
(* indexOf, substring, trim, split, parseFloat and the character scan of   *)
(* parseAttributes are computed the way the code computes them.            *)
(***************************************************************************)
EXTENDS Integers, Sequences, FiniteSets, TLC

VARIABLES
    \* parseAttributes
    input,      \* the label fragment handed to parseAttributes
    pos,        \* index of the next character of the for..of loop
    ps,         \* the locals of parseAttributes (state, quote, buffers, attrs)
    \* generateNusacontactQueueMetrics rendering and parseMetricLines
    queueCount, \* the tag -> count entries of queueCount, in insertion order
    text,       \* the exposition text handed to parseMetricLines
    lines,      \* input.trim().split('\n')
    lineNo,     \* index of the line the for..of loop is at
    result,     \* the local `result` of parseMetricLines
    parsePc,    \* "render" | "split" | "loop" | "returned" | "threw"
    parsed,     \* what the caller of parseMetricLines receives
    \* formatPrometheusMetrics / writeMetricsAtomic / writeMetricsFile
    exporter,   \* "gamas" | "nusacontact"
    groups,     \* gamas: the incident groups handed to formatPrometheusMetrics
    content,    \* the text handed to the writer
    prev,       \* the file at the destination path when the run started
    dest,       \* the file visible at the destination path
    tmpDir,     \* whether the temporary directory exists
    tmpFile,    \* the temporary file
    wpc,        \* position of the writer
    failure,    \* the fs call that failed in this run, or "none"
    callerSaw,  \* what the caller of the writer observes
    \* the counting pass of generateNusacontactQueueMetrics
    tags,        \* the allowed tags (JSON.parse(nusacontactQueueGroups))
    metricsData, \* the samples of the target metric
    sampleNo,    \* index of the sample the forEach is at
    countPc,     \* "idle" | "count" | "done"
    \* extractAndSortIncidents / groupIncidents (the groups are in `groups`)
    alerts,      \* the alerts handed to extractAndSortIncidents
    incidents,   \* the sorted incidents handed to groupIncidents
    incNo,       \* index of the incident the for..of loop is at
    memberTimes, \* history: per group, the timestamps of the events added
    gpc,         \* "idle" | "sort" | "loop" | "done"
    \* one run of generateNusacontactQueueMetrics
    runPc,       \* "idle" | "fetch" | "parse" | "count" | "write" | "caught" | "done"
    caught,      \* what the catch block received: "none" or the failed step
    writerCalls, \* the number of calls of writeMetricsFile
    promise      \* "pending" | "resolved" | "rejected"

labelVars == <<input, pos, ps>>
lineVars == <<text, lines, lineNo, result, parsePc, parsed>>
writerVars == <<exporter, groups, content, prev, dest, tmpDir, tmpFile, wpc,
                failure, callerSaw>>
countVars == <<tags, metricsData, sampleNo, countPc>>
clusterVars == <<alerts, incidents, incNo, memberTimes, gpc>>
runVars == <<runPc, caught, writerCalls, promise>>
auxVars == <<countVars, clusterVars, runVars>>
vars == <<labelVars, queueCount, lineVars, writerVars, auxVars>>

----------------------------------------------------------------------------
(* Bounds of the model. *)

MaxTokens == 4     \* tokens of a label fragment
MaxLines == 3      \* lines of an exposition text
MaxEntries == 2    \* entries of queueCount
MaxGroups == 2     \* incident groups handed to the gamas renderer

SeqsUpTo(S, n) == UNION {[1..k -> S] : k \in 0..n}

----------------------------------------------------------------------------
(* JavaScript strings. *)

RECURSIVE Flatten(_)
Flatten(ss) == IF ss = <<>> THEN <<>> ELSE Head(ss) \o Flatten(Tail(ss))

\* the characters String.prototype.trim removes (those the inputs can hold)
IsTrimSpace(c) == c \in {" ", "\t", "\n"}

RECURSIVE TrimStart(_)
TrimStart(s) ==
    IF s # <<>> /\ IsTrimSpace(Head(s)) THEN TrimStart(Tail(s)) ELSE s

RECURSIVE TrimEnd(_)
TrimEnd(s) ==
    IF s # <<>> /\ IsTrimSpace(s[Len(s)])
    THEN TrimEnd(SubSeq(s, 1, Len(s) - 1))
    ELSE s

Trim(s) == TrimEnd(TrimStart(s))

\* String.prototype.indexOf(c): 0-based index of the first c, -1 when absent
IndexOf(s, c) ==
    IF \E i \in 1..Len(s) : s[i] = c
    THEN (CHOOSE i \in 1..Len(s) : s[i] = c /\ \A j \in 1..(i - 1) : s[j] # c) - 1
    ELSE -1

Clamp(n, len) == IF n < 0 THEN 0 ELSE IF n > len THEN len ELSE n

\* String.prototype.substring(a, b): both ends clamped to 0..length, and
\* swapped when a > b
Substring(s, a, b) ==
    LET ca == Clamp(a, Len(s))
        cb == Clamp(b, Len(s))
        lo == IF ca <= cb THEN ca ELSE cb
        hi == IF ca <= cb THEN cb ELSE ca
    IN SubSeq(s, lo + 1, hi)

\* String.prototype.substring(a): to the end of the string
SubstringFrom(s, a) == SubSeq(s, Clamp(a, Len(s)) + 1, Len(s))

StartsWith(s, c) == s # <<>> /\ s[1] = c

\* String.prototype.split('\n'): always at least one piece
RECURSIVE Split(_)
Split(s) ==
    LET i == IndexOf(s, "\n")
    IN IF i = -1 THEN <<s>>
       ELSE <<SubSeq(s, 1, i)>> \o Split(SubSeq(s, i + 2, Len(s)))

\* Array.prototype.join('\n')
RECURSIVE Join(_)
Join(ls) ==
    IF ls = <<>> THEN <<>>
    ELSE IF Len(ls) = 1 THEN ls[1]
    ELSE ls[1] \o <<"\n">> \o Join(Tail(ls))

Digits == {"0", "1", "2", "3", "4", "5", "6", "7", "8", "9"}

DigitVal(c) ==
    CASE c = "0" -> 0 [] c = "1" -> 1 [] c = "2" -> 2 [] c = "3" -> 3
      [] c = "4" -> 4 [] c = "5" -> 5 [] c = "6" -> 6 [] c = "7" -> 7
      [] c = "8" -> 8 [] c = "9" -> 9

DigitChar(d) ==
    CASE d = 0 -> "0" [] d = 1 -> "1" [] d = 2 -> "2" [] d = 3 -> "3"
      [] d = 4 -> "4" [] d = 5 -> "5" [] d = 6 -> "6" [] d = 7 -> "7"
      [] d = 8 -> "8" [] d = 9 -> "9"

\* a number: NaN, or mant / 10^scale with no trailing zero in the fraction
NaN == [nan |-> TRUE, mant |-> 0, scale |-> 0]
Num(m, sc) == [nan |-> FALSE, mant |-> m, scale |-> sc]

RECURSIVE Normalize(_, _)
Normalize(m, sc) ==
    IF sc > 0 /\ m % 10 = 0 THEN Normalize(m \div 10, sc - 1) ELSE Num(m, sc)

\* number of digits at the head of s
RECURSIVE DigitRun(_)
DigitRun(s) ==
    IF s # <<>> /\ Head(s) \in Digits THEN 1 + DigitRun(Tail(s)) ELSE 0

RECURSIVE DigitsValue(_, _)
DigitsValue(s, acc) ==
    IF s = <<>> THEN acc ELSE DigitsValue(Tail(s), acc * 10 + DigitVal(Head(s)))

\* parseFloat: leading white space is skipped, then the longest prefix
\* [+-]? digits [. digits] | [+-]? . digits is converted and the rest ignored;
\* NaN when there is no such prefix. (Exponents and "Infinity" are left out:
\* no input of the model holds them.)
ParseFloat(str) ==
    LET s == TrimStart(str)
        signed == s # <<>> /\ Head(s) \in {"+", "-"}
        neg == signed /\ Head(s) = "-"
        body == IF signed THEN Tail(s) ELSE s
        ni == DigitRun(body)
        afterInt == SubSeq(body, ni + 1, Len(body))
        hasDot == afterInt # <<>> /\ Head(afterInt) = "."
        nf == IF hasDot THEN DigitRun(Tail(afterInt)) ELSE 0
        mant == DigitsValue(SubSeq(body, 1, ni) \o SubSeq(afterInt, 2, nf + 1), 0)
    IN IF ni + nf = 0 THEN NaN
       ELSE Normalize(IF neg THEN -mant ELSE mant, nf)

\* String(n) of a non-negative integer, as template literals print a count
RECURSIVE NumToStr(_)
NumToStr(n) ==
    IF n < 10 THEN <<DigitChar(n)>>
    ELSE NumToStr(n \div 10) \o <<DigitChar(n % 10)>>

----------------------------------------------------------------------------
(* JavaScript objects used as maps ({} with Object.prototype behind it). *)

PROTO == <<"_", "_", "p", "r", "o", "t", "o", "_", "_">>

\* names every plain object inherits (the ones the inputs can spell)
InheritedKeys == {PROTO}

EmptyObj == [k \in {} |-> <<>>]

\* obj[key] = value. Object.prototype has a setter for __proto__, which
\* ignores a value that is neither an object nor null: no own property is
\* created and the object is left as it was.
ObjSet(obj, key, value) ==
    IF key = PROTO THEN obj
    ELSE [k \in DOMAIN obj \cup {key} |-> IF k = key THEN value ELSE obj[k]]

\* whether obj[key] is truthy for an object whose own values are arrays
ObjTruthy(obj, key) == key \in DOMAIN obj \/ key \in InheritedKeys

----------------------------------------------------------------------------
(* parseAttributes: the label parser. *)

INITIAL == 0
READING_ATTR == 1
IN_QUOTE == 2
READING_VALUE == 3
AFTER_SEP == 4

\* the locals of parseAttributes at its start. status is "scanning" while the
\* loop runs, then "returned" or "threw"; commits is the history of the pairs
\* commitAttribute was called with (it is not read by the parser).
InitPs ==
    [state |-> INITIAL, quote |-> "\"", attrBuf |-> <<>>, valBuf |-> <<>>,
     attrs |-> EmptyObj, status |-> "scanning", error |-> "",
     commits |-> <<>>]

Throw(p, msg) == [p EXCEPT !.status = "threw", !.error = msg]

CommitAttribute(p) ==
    [p EXCEPT !.attrs = ObjSet(p.attrs, p.attrBuf, p.valBuf),
              !.commits = Append(@, <<p.attrBuf, p.valBuf>>),
              !.attrBuf = <<>>,
              !.valBuf = <<>>,
              !.state = INITIAL]

\* a scan in which either quote character closes a quoted value
StepCharAnyQuote(p, char) ==
    CASE p.state = INITIAL ->
           IF char = " " \/ char = "," THEN p
           ELSE IF char = "="
           THEN Throw(p, "Unexpected \"=\" without attribute name")
           ELSE [p EXCEPT !.state = READING_ATTR, !.attrBuf = Append(@, char)]
      [] p.state = READING_ATTR ->
           IF char = "=" THEN [p EXCEPT !.state = AFTER_SEP]
           ELSE IF char = " " THEN Throw(p, "Space in attribute name")
           ELSE [p EXCEPT !.attrBuf = Append(@, char)]
      [] p.state = AFTER_SEP ->
           IF char = "\"" \/ char = "'"
           THEN [p EXCEPT !.state = IN_QUOTE, !.quote = char]
           ELSE IF char # " "
           THEN [p EXCEPT !.state = READING_VALUE, !.valBuf = Append(@, char)]
           ELSE p
      [] p.state = READING_VALUE ->
           IF char = " " \/ char = "," THEN CommitAttribute(p)
           ELSE [p EXCEPT !.valBuf = Append(@, char)]
      [] p.state = IN_QUOTE ->
           IF char = "\"" \/ char = "'" THEN CommitAttribute(p)
           ELSE [p EXCEPT !.valBuf = Append(@, char)]

\* one iteration of `for (const char of input)`: the switch on the state
StepChar(p, char) ==
    CASE p.state = INITIAL ->
           IF char = " " \/ char = "," THEN p
           ELSE IF char = "="
           THEN Throw(p, "Unexpected \"=\" without attribute name")
           ELSE [p EXCEPT !.state = READING_ATTR, !.attrBuf = Append(@, char)]
      [] p.state = READING_ATTR ->
           IF char = "=" THEN [p EXCEPT !.state = AFTER_SEP]
           ELSE IF char = " " THEN Throw(p, "Space in attribute name")
           ELSE [p EXCEPT !.attrBuf = Append(@, char)]
      [] p.state = AFTER_SEP ->
           IF char = "\"" \/ char = "'"
           THEN [p EXCEPT !.state = IN_QUOTE, !.quote = char]
           ELSE IF char # " "
           THEN [p EXCEPT !.state = READING_VALUE, !.valBuf = Append(@, char)]
           ELSE p
      [] p.state = READING_VALUE ->
           IF char = " " \/ char = "," THEN CommitAttribute(p)
           ELSE [p EXCEPT !.valBuf = Append(@, char)]
      [] p.state = IN_QUOTE ->
           IF char = p.quote THEN CommitAttribute(p)
           ELSE [p EXCEPT !.valBuf = Append(@, char)]

\* an end of input that lets a name with `=` and no value pass
TerminateLenient(p) ==
    IF p.state = READING_VALUE
    THEN [CommitAttribute(p) EXCEPT !.status = "returned"]
    ELSE IF p.state # INITIAL /\ p.state # IN_QUOTE /\ p.state # AFTER_SEP
    THEN Throw(p, "Input ended unexpectedly")
    ELSE [p EXCEPT !.status = "returned"]

\* the code after the loop
Terminate(p) ==
    IF p.state = READING_VALUE
    THEN [CommitAttribute(p) EXCEPT !.status = "returned"]
    ELSE IF p.state # INITIAL /\ p.state # IN_QUOTE
    THEN Throw(p, "Input ended unexpectedly")
    ELSE [p EXCEPT !.status = "returned"]

RECURSIVE RunChars(_, _)
RunChars(p, s) ==
    IF s = <<>> \/ p.status # "scanning" THEN p
    ELSE RunChars(StepChar(p, Head(s)), Tail(s))

\* parseAttributes as a whole, as parseMetricLines calls it
ParseAttributes(s) ==
    LET p == RunChars(InitPs, s)
    IN IF p.status = "scanning" THEN Terminate(p) ELSE p

----------------------------------------------------------------------------
(* parseMetricLines: the exposition parser. *)

NoResult == [ok |-> FALSE, value |-> EmptyObj]

\* a loop body that files a sample in front of the earlier ones
ParseLineIntoUnshift(res, line) ==
    LET metricNameEnd == IndexOf(line, "{")
        labelsStart == metricNameEnd + 1
        labelsEnd == IndexOf(line, "}")
        valueStart == labelsEnd + 1
        metricName == Trim(Substring(line, 0, metricNameEnd))
        labelString == Trim(Substring(line, labelsStart, labelsEnd))
        value == ParseFloat(Trim(SubstringFrom(line, valueStart)))
        p == ParseAttributes(labelString)
        metric == [labels |-> p.attrs, value |-> value]
    IN IF p.status = "threw" THEN [threw |-> TRUE, result |-> res]
       ELSE IF ~ObjTruthy(res, metricName)
       THEN [threw |-> FALSE, result |-> ObjSet(res, metricName, <<metric>>)]
       ELSE IF metricName \in DOMAIN res
       THEN [threw |-> FALSE,
             result |-> [res EXCEPT ![metricName] = <<metric>> \o @]]
       ELSE [threw |-> TRUE, result |-> res]

\* one iteration of `for (const line of lines)` on a line that is no comment:
\* [threw |-> whether the iteration threw, result |-> the new `result`]
ParseLineInto(res, line) ==
    LET metricNameEnd == IndexOf(line, "{")
        labelsStart == metricNameEnd + 1
        labelsEnd == IndexOf(line, "}")
        valueStart == labelsEnd + 1
        metricName == Trim(Substring(line, 0, metricNameEnd))
        labelString == Trim(Substring(line, labelsStart, labelsEnd))
        value == ParseFloat(Trim(SubstringFrom(line, valueStart)))
        p == ParseAttributes(labelString)
        metric == [labels |-> p.attrs, value |-> value]
    IN IF p.status = "threw" THEN [threw |-> TRUE, result |-> res]
       ELSE IF ~ObjTruthy(res, metricName)
       THEN [threw |-> FALSE, result |-> ObjSet(res, metricName, <<metric>>)]
       ELSE IF metricName \in DOMAIN res
       THEN [threw |-> FALSE,
             result |-> [res EXCEPT ![metricName] = Append(@, metric)]]
       \* an inherited property is truthy and has no push: TypeError
       ELSE [threw |-> TRUE, result |-> res]

\* lines 52-54 and 174: one line per entry of queueCount, joined by '\n'
MetricName == <<"q">>

RenderLine(entry) ==
    MetricName \o <<"{", "t", "a", "g", "=", "\"">> \o entry.tag
        \o <<"\"", "}", " ">> \o NumToStr(entry.count)

RenderCounts(entries) ==
    Join([i \in 1..Len(entries) |-> RenderLine(entries[i])])

----------------------------------------------------------------------------
(* formatPrometheusMetrics: the gamas renderer. A timestamp of the model is a *)
(* number of seconds after local midnight of one day.                         *)

gamasMassIncidentCountThreshold == 1

GamasMetricName == <<"g">>
BaseDate == <<"2", "0", "2", "5", "-", "0", "1", "-", "0", "1">>

\* String(n).padStart(2, '0')
Pad2(n) == IF n < 10 THEN <<"0">> \o NumToStr(n) ELSE NumToStr(n)

\* `${year}-${month}-${day} ${hours}:${minutes}` of the local time
FormatStart(t) ==
    BaseDate \o <<" ">> \o Pad2((t \div 3600) % 24) \o <<":">>
        \o Pad2((t \div 60) % 60)

FormatGroup(g) ==
    GamasMetricName
        \o <<"{", "r", "e", "g", "i", "o", "n", "=", "\"">> \o g.region
        \o <<"\"", ",", "l", "i", "n", "k", "=", "\"">> \o g.link
        \o <<"\"", ",", "s", "t", "a", "r", "t", "=", "\"">>
        \o FormatStart(g.startsAtMin)
        \o <<"\"", "}", " ">> \o NumToStr(g.count)

RECURSIVE FilterAtLeastThreshold(_)
\* a filter that also keeps the groups at the threshold
FilterAtLeastThreshold(gs) ==
    IF gs = <<>> THEN <<>>
    ELSE IF Head(gs).count >= gamasMassIncidentCountThreshold
    THEN <<Head(gs)>> \o FilterAtLeastThreshold(Tail(gs))
    ELSE FilterAtLeastThreshold(Tail(gs))

\* Array.prototype.filter
RECURSIVE FilterOverThreshold(_)
FilterOverThreshold(gs) ==
    IF gs = <<>> THEN <<>>
    ELSE IF Head(gs).count > gamasMassIncidentCountThreshold
    THEN <<Head(gs)>> \o FilterOverThreshold(Tail(gs))
    ELSE FilterOverThreshold(Tail(gs))

FormatPrometheusMetrics(gs) ==
    LET kept == FilterOverThreshold(gs)
    IN Join([i \in 1..Len(kept) |-> FormatGroup(kept[i])])

----------------------------------------------------------------------------
(* The files of the writers. *)

NoFile == [exists |-> FALSE, data |-> <<>>]
File(d) == [exists |-> TRUE, data |-> d]

OldContent == <<"o", "l", "d">>

\* what a failed writeFileSync can leave at its path: nothing, or a file
\* holding a proper prefix of the data
PartialFiles(d) == {NoFile} \cup {File(SubSeq(d, 1, k)) : k \in 0..(Len(d) - 1)}

----------------------------------------------------------------------------
(* The inputs. *)

\* a label fragment is a run of at most MaxTokens of these
LabelTokens ==
    {<<"a">>, <<"=">>, <<"a", "=">>, <<"a", "=", "x", ",">>, <<"x">>, <<",">>,
     <<" ">>, <<"\t">>, <<"\"">>, <<"'">>, PROTO}

LabelInputs == {Flatten(ts) : ts \in SeqsUpTo(LabelTokens, MaxTokens)}

\* an exposition text is at most MaxLines of these lines, joined by '\n'
LineSet ==
    {<<>>,
     <<"#", " ", "c">>,
     <<"#", "{", "=", "}", " ", "x">>,
     <<"u", "p", " ", "1">>,
     <<"m", "{", "a", "=", "1", "}", " ", "2">>,
     <<"n", "{", "b", "=", "'", "2", "'", "}", " ", "3", ".", "5">>,
     <<"m", "{", "a", "=", "1", "}", " ", "x">>,
     <<"m", "{", "=", "}", " ", "1">>,
     <<"m", "{", "a", "}", " ", "1">>,
     <<"m", "{", "a", "=", "\"", "x", "}", " ", "1">>,
     <<"m", "{", "a", "=", "\"", "}", "\"", "}", " ", "1">>,
     PROTO \o <<"{", "}", " ", "1">>}

TextInputs == {Join(ls) : ls \in SeqsUpTo(LineSet, MaxLines)}

\* the tags of queueCount: keys of a JSON array of strings
Tags ==
    {<<>>, <<"a">>, <<"b">>, <<"a", "b">>, <<"'">>, <<"}">>, <<"a", "}">>,
     <<"\"">>}

CountValues == 1..2

\* queueCount: entries with pairwise distinct tags
CountMappings ==
    {es \in SeqsUpTo([tag : Tags, count : CountValues], MaxEntries) :
        \A i, j \in 1..Len(es) : i # j => es[i].tag # es[j].tag}

\* the groups groupIncidents hands on: count = hosts.length >= 1,
\* startsAtMin <= startsAtMax
Hosts == <<"h1", "h2", "h3">>

GroupInputs ==
    {[region |-> <<"r">>, link |-> <<"l">>, hosts |-> SubSeq(Hosts, 1, n),
      count |-> n, startsAtMin |-> t, startsAtMax |-> t + 60 * (n - 1)] :
        n \in 1..Len(Hosts), t \in {0, 3660}}

GroupLists == SeqsUpTo(GroupInputs, MaxGroups)

LabelIdle == input = <<>> /\ pos = 1 /\ ps = InitPs

LineIdle ==
    /\ text = <<>> /\ lines = <<>> /\ lineNo = 1 /\ result = EmptyObj
    /\ parsePc = "idle" /\ parsed = NoResult

WriterIdle ==
    /\ exporter = "none" /\ groups = <<>> /\ content = <<>>
    /\ prev = NoFile /\ dest = NoFile /\ tmpDir = FALSE /\ tmpFile = NoFile
    /\ wpc = "idle" /\ failure = "none" /\ callerSaw = "pending"

CountIdle ==
    tags = <<>> /\ metricsData = <<>> /\ sampleNo = 1 /\ countPc = "idle"

ClusterIdle ==
    /\ alerts = <<>> /\ incidents = <<>> /\ incNo = 1 /\ memberTimes = <<>>
    /\ gpc = "idle"

RunIdle ==
    runPc = "idle" /\ caught = "none" /\ writerCalls = 0 /\ promise = "pending"

AuxIdle == CountIdle /\ ClusterIdle /\ RunIdle

----------------------------------------------------------------------------
(* parseAttributes, one character at a time. *)

InitLabel ==
    /\ AuxIdle
    /\ input \in LabelInputs /\ pos = 1 /\ ps = InitPs
    /\ queueCount = <<>> /\ LineIdle /\ WriterIdle

ScanChar ==
    /\ UNCHANGED auxVars
    /\ ps.status = "scanning"
    /\ pos <= Len(input)
    /\ ps' = StepChar(ps, input[pos])
    /\ pos' = pos + 1
    /\ UNCHANGED <<input, queueCount, lineVars, writerVars>>

EndOfInput ==
    /\ UNCHANGED auxVars
    /\ ps.status = "scanning"
    /\ pos > Len(input)
    /\ ps' = Terminate(ps)
    /\ UNCHANGED <<input, pos, queueCount, lineVars, writerVars>>

NextLabel == ScanChar \/ EndOfInput

SpecLabel == InitLabel /\ [][NextLabel]_vars

----------------------------------------------------------------------------
(* parseMetricLines, one line at a time. *)

InitLines ==
    /\ AuxIdle
    /\ text \in TextInputs /\ parsePc = "split"
    /\ lines = <<>> /\ lineNo = 1 /\ result = EmptyObj /\ parsed = NoResult
    /\ queueCount = <<>> /\ LabelIdle /\ WriterIdle

\* lines 68-69
SplitLines ==
    /\ UNCHANGED auxVars
    /\ parsePc = "split"
    /\ lines' = Split(Trim(text))
    /\ lineNo' = 1
    /\ result' = EmptyObj
    /\ parsePc' = "loop"
    /\ UNCHANGED <<text, parsed, labelVars, queueCount, writerVars>>

\* a loop that skips a line it cannot parse and goes on
LoopLineSkipBad ==
    /\ UNCHANGED auxVars
    /\ parsePc = "loop"
    /\ lineNo <= Len(lines)
    /\ LET line == lines[lineNo]
           r == ParseLineInto(result, line)
       IN /\ result' = IF StartsWith(line, "#") THEN result ELSE r.result
          /\ lineNo' = lineNo + 1
          /\ UNCHANGED <<parsePc, parsed>>
    /\ UNCHANGED <<text, lines, labelVars, queueCount, writerVars>>

\* one iteration of the loop of lines 71-88; a throw ends parseMetricLines
\* and its caller receives nothing
LoopLine ==
    /\ UNCHANGED auxVars
    /\ parsePc = "loop"
    /\ lineNo <= Len(lines)
    /\ LET line == lines[lineNo]
           r == ParseLineInto(result, line)
       IN IF StartsWith(line, "#")
          THEN /\ lineNo' = lineNo + 1
               /\ UNCHANGED <<result, parsePc, parsed>>
          ELSE IF r.threw
          THEN /\ parsePc' = "threw"
               /\ parsed' = NoResult
               /\ UNCHANGED <<result, lineNo>>
          ELSE /\ result' = r.result
               /\ lineNo' = lineNo + 1
               /\ UNCHANGED <<parsePc, parsed>>
    /\ UNCHANGED <<text, lines, labelVars, queueCount, writerVars>>

\* line 90
ReturnResult ==
    /\ UNCHANGED auxVars
    /\ parsePc = "loop"
    /\ lineNo > Len(lines)
    /\ parsePc' = "returned"
    /\ parsed' = [ok |-> TRUE, value |-> result]
    /\ UNCHANGED <<text, lines, lineNo, result, labelVars, queueCount,
                   writerVars>>

NextLines == SplitLines \/ LoopLine \/ ReturnResult

SpecLines == InitLines /\ [][NextLines]_vars

----------------------------------------------------------------------------
(* Rendering queueCount and parsing the rendered text again. *)

InitRoundTrip ==
    /\ AuxIdle
    /\ queueCount \in CountMappings /\ parsePc = "render"
    /\ text = <<>> /\ lines = <<>> /\ lineNo = 1 /\ result = EmptyObj
    /\ parsed = NoResult /\ LabelIdle /\ WriterIdle

RenderText ==
    /\ UNCHANGED auxVars
    /\ parsePc = "render"
    /\ text' = RenderCounts(queueCount)
    /\ parsePc' = "split"
    /\ UNCHANGED <<lines, lineNo, result, parsed, labelVars, queueCount,
                   writerVars>>

NextRoundTrip == RenderText \/ SplitLines \/ LoopLine \/ ReturnResult

SpecRoundTrip == InitRoundTrip /\ [][NextRoundTrip]_vars

----------------------------------------------------------------------------
(* A run of an exporter from its rendering on: formatPrometheusMetrics and   *)
(* writeMetricsAtomic (gamas), the rendering of queueCount and               *)
(* writeMetricsFile (nusacontact). Every fs call is one step, and each of    *)
(* mkdtempSync, writeFileSync and renameSync can fail. The removal of the    *)
(* temporary directory is taken to succeed.                                  *)

InitExport ==
    /\ AuxIdle
    /\ exporter \in {"gamas", "nusacontact"}
    /\ IF exporter = "gamas"
       THEN groups \in GroupLists /\ queueCount = <<>>
       ELSE groups = <<>> /\ queueCount \in CountMappings
    /\ prev \in {NoFile, File(OldContent)}
    /\ dest = prev
    /\ content = <<>> /\ tmpDir = FALSE /\ tmpFile = NoFile
    /\ wpc = "render" /\ failure = "none" /\ callerSaw = "pending"
    /\ LabelIdle /\ LineIdle

\* what a writer step leaves alone besides the writer's own files
WriterFrame == UNCHANGED <<exporter, groups, content, prev, labelVars,
                           queueCount, lineVars, auxVars>>

\* gamas-exporter.ts line 49
GamasRender ==
    /\ UNCHANGED auxVars
    /\ exporter = "gamas" /\ wpc = "render"
    /\ content' = FormatPrometheusMetrics(groups)
    /\ wpc' = "mkdtemp"
    /\ UNCHANGED <<exporter, groups, prev, dest, tmpDir, tmpFile, failure,
                   callerSaw, labelVars, queueCount, lineVars>>

\* writeMetricsAtomic, line 103
AtomicMkdtemp ==
    /\ exporter = "gamas" /\ wpc = "mkdtemp"
    /\ tmpDir' = TRUE
    /\ wpc' = "write"
    /\ UNCHANGED <<dest, tmpFile, failure, callerSaw>>
    /\ WriterFrame

AtomicMkdtempFails ==
    /\ exporter = "gamas" /\ wpc = "mkdtemp"
    /\ failure' = "mkdtemp"
    /\ callerSaw' = "threw"
    /\ wpc' = "done"
    /\ UNCHANGED <<dest, tmpDir, tmpFile>>
    /\ WriterFrame

\* writeMetricsAtomic, line 106
AtomicWrite ==
    /\ exporter = "gamas" /\ wpc = "write"
    /\ tmpFile' = File(content)
    /\ wpc' = "rename"
    /\ UNCHANGED <<dest, tmpDir, failure, callerSaw>>
    /\ WriterFrame

\* a writer that writes to the destination path itself: a failed write leaves
\* its partial data there
AtomicWriteFailsInPlace ==
    /\ exporter = "gamas" /\ wpc = "write"
    /\ dest' \in PartialFiles(content)
    /\ failure' = "write"
    /\ callerSaw' = "threw"
    /\ wpc' = "done"
    /\ UNCHANGED <<tmpDir, tmpFile>>
    /\ WriterFrame

\* the exception leaves writeMetricsAtomic: line 108 is not reached
AtomicWriteFails ==
    /\ exporter = "gamas" /\ wpc = "write"
    /\ tmpFile' \in PartialFiles(content)
    /\ failure' = "write"
    /\ callerSaw' = "threw"
    /\ wpc' = "done"
    /\ UNCHANGED <<dest, tmpDir>>
    /\ WriterFrame

\* writeMetricsAtomic, line 107
AtomicRename ==
    /\ exporter = "gamas" /\ wpc = "rename"
    /\ dest' = tmpFile
    /\ tmpFile' = NoFile
    /\ wpc' = "rmdir"
    /\ UNCHANGED <<tmpDir, failure, callerSaw>>
    /\ WriterFrame

AtomicRenameFails ==
    /\ exporter = "gamas" /\ wpc = "rename"
    /\ failure' = "rename"
    /\ callerSaw' = "threw"
    /\ wpc' = "done"
    /\ UNCHANGED <<dest, tmpDir, tmpFile>>
    /\ WriterFrame

\* writeMetricsAtomic, line 108: the directory is empty after the rename
AtomicRmdir ==
    /\ exporter = "gamas" /\ wpc = "rmdir"
    /\ tmpDir' = FALSE
    /\ callerSaw' = "returned"
    /\ wpc' = "done"
    /\ UNCHANGED <<dest, tmpFile, failure>>
    /\ WriterFrame

\* nusacontact-exporter.ts lines 52-54, joined at line 174
NusaRender ==
    /\ UNCHANGED auxVars
    /\ exporter = "nusacontact" /\ wpc = "render"
    /\ content' = RenderCounts(queueCount)
    /\ wpc' = "mkdtemp"
    /\ UNCHANGED <<exporter, groups, prev, dest, tmpDir, tmpFile, failure,
                   callerSaw, labelVars, queueCount, lineVars>>

\* writeMetricsFile, line 170 (outside the try)
FileMkdtemp ==
    /\ exporter = "nusacontact" /\ wpc = "mkdtemp"
    /\ tmpDir' = TRUE
    /\ wpc' = "write"
    /\ UNCHANGED <<dest, tmpFile, failure, callerSaw>>
    /\ WriterFrame

FileMkdtempFails ==
    /\ exporter = "nusacontact" /\ wpc = "mkdtemp"
    /\ failure' = "mkdtemp"
    /\ callerSaw' = "threw"
    /\ wpc' = "done"
    /\ UNCHANGED <<dest, tmpDir, tmpFile>>
    /\ WriterFrame

\* writeMetricsFile, line 174
FileWrite ==
    /\ exporter = "nusacontact" /\ wpc = "write"
    /\ tmpFile' = File(content)
    /\ wpc' = "rename"
    /\ UNCHANGED <<dest, tmpDir, failure, callerSaw>>
    /\ WriterFrame

\* the catch of line 176 logs the error and goes on to the finally
FileWriteFails ==
    /\ exporter = "nusacontact" /\ wpc = "write"
    /\ tmpFile' \in PartialFiles(content)
    /\ failure' = "write"
    /\ wpc' = "finally"
    /\ UNCHANGED <<dest, tmpDir, callerSaw>>
    /\ WriterFrame

\* writeMetricsFile, line 175
FileRename ==
    /\ exporter = "nusacontact" /\ wpc = "rename"
    /\ dest' = tmpFile
    /\ tmpFile' = NoFile
    /\ wpc' = "finally"
    /\ UNCHANGED <<tmpDir, failure, callerSaw>>
    /\ WriterFrame

FileRenameFails ==
    /\ exporter = "nusacontact" /\ wpc = "rename"
    /\ failure' = "rename"
    /\ wpc' = "finally"
    /\ UNCHANGED <<dest, tmpDir, tmpFile, callerSaw>>
    /\ WriterFrame

\* writeMetricsFile, lines 178-180: rmSync(recursive, force), then the
\* function returns normally, after a caught failure too
FileFinally ==
    /\ exporter = "nusacontact" /\ wpc = "finally"
    /\ tmpDir' = FALSE
    /\ tmpFile' = NoFile
    /\ callerSaw' = "returned"
    /\ wpc' = "done"
    /\ UNCHANGED <<dest, failure>>
    /\ WriterFrame

NextExport ==
    \/ GamasRender \/ AtomicMkdtemp \/ AtomicMkdtempFails \/ AtomicWrite
    \/ AtomicWriteFails \/ AtomicRename \/ AtomicRenameFails \/ AtomicRmdir
    \/ NusaRender \/ FileMkdtemp \/ FileMkdtempFails \/ FileWrite
    \/ FileWriteFails \/ FileRename \/ FileRenameFails \/ FileFinally

SpecExport == InitExport /\ [][NextExport]_vars

----------------------------------------------------------------------------
(* The counting pass of generateNusacontactQueueMetrics: SpecCount.          *)

MaxSamples == 3

TypeKey == <<"t", "y", "p", "e">>
TagsKey == <<"t", "a", "g", "s">>
Enqueued == <<"e", "n", "q", "u", "e", "u", "e", "d">>

\* String.prototype.includes
Includes(s, sub) ==
    \E i \in 0..(Len(s) - Len(sub)) : SubSeq(s, i + 1, i + Len(sub)) = sub

\* m.labels.type === 'enqueued'
IsEnqueued(m) == TypeKey \in DOMAIN m.labels /\ m.labels[TypeKey] = Enqueued

\* m.labels.tags?.includes(tag)
TagsInclude(m, tag) ==
    TagsKey \in DOMAIN m.labels /\ Includes(m.labels[TagsKey], tag)

\* queueCount[tag] = (queueCount[tag] || 0) + 1
Increment(q, tag) ==
    IF \E i \in 1..Len(q) : q[i].tag = tag
    THEN [i \in 1..Len(q) |->
             IF q[i].tag = tag THEN [q[i] EXCEPT !.count = @ + 1] ELSE q[i]]
    ELSE Append(q, [tag |-> tag, count |-> 1])

RECURSIVE CountTagsOncePerSample(_, _, _)
\* a pass that stops at the first allowed tag a sample matches
CountTagsOncePerSample(q, m, tagList) ==
    IF tagList = <<>> THEN q
    ELSE IF ~TagsInclude(m, Head(tagList))
         THEN CountTagsOncePerSample(q, m, Tail(tagList))
         ELSE Increment(q, Head(tagList))

RECURSIVE CountTags(_, _, _)
\* for (const tag of tags) { if (!...includes(tag)) continue; ... + 1 }
CountTags(q, m, tagList) ==
    IF tagList = <<>> THEN q
    ELSE IF ~TagsInclude(m, Head(tagList))
         THEN CountTags(q, m, Tail(tagList))
         ELSE CountTags(Increment(q, Head(tagList)), m, Tail(tagList))

\* the allowed tags: a set, written as a JSON array
AllowedTags == {<<"a">>, <<"b">>, <<"a", "b">>}

TagLists ==
    {ts \in SeqsUpTo(AllowedTags, 2) :
        \A i, j \in 1..Len(ts) : i # j => ts[i] # ts[j]}

\* the labels of the samples of the scraped metric
TypeValues == {Enqueued, <<"d", "o", "n", "e">>}
TagsValues == {<<"a">>, <<"a", "b">>, <<"a", ",", "b">>}

SampleLabels ==
    {EmptyObj}
        \cup {(TypeKey :> t) : t \in TypeValues}
        \cup {(TagsKey :> g) : g \in TagsValues}
        \cup {(TypeKey :> t) @@ (TagsKey :> g) : t \in TypeValues, g \in TagsValues}

SampleInputs == {[labels |-> l, value |-> Num(1, 0)] : l \in SampleLabels}

InitCount ==
    /\ tags \in TagLists
    /\ metricsData \in SeqsUpTo(SampleInputs, MaxSamples)
    /\ sampleNo = 1 /\ countPc = "count"
    /\ queueCount = <<>>
    /\ LabelIdle /\ LineIdle /\ WriterIdle /\ ClusterIdle /\ RunIdle

\* one sample through .filter(...).forEach(...)
CountSample ==
    /\ countPc = "count" /\ sampleNo <= Len(metricsData)
    /\ queueCount' = IF IsEnqueued(metricsData[sampleNo])
                     THEN CountTags(queueCount, metricsData[sampleNo], tags)
                     ELSE queueCount
    /\ sampleNo' = sampleNo + 1
    /\ UNCHANGED <<tags, metricsData, countPc, labelVars, lineVars, writerVars,
                   clusterVars, runVars>>

\* forEach returns
CountEnd ==
    /\ countPc = "count" /\ sampleNo > Len(metricsData)
    /\ countPc' = "done"
    /\ UNCHANGED <<tags, metricsData, sampleNo, queueCount, labelVars, lineVars,
                   writerVars, clusterVars, runVars>>

NextCount == CountSample \/ CountEnd

SpecCount == InitCount /\ [][NextCount]_vars

----------------------------------------------------------------------------
(* extractAndSortIncidents and groupIncidents: SpecCluster. Instants are     *)
(* whole seconds; the groups under construction are in `groups`.             *)

MaxAlerts == 3

gamasMaxIncidentAgeSeconds == 1000
gamasMassIncidentPeriodSeconds == 100

\* new Date() at the start of groupIncidents
Now == 600

Abs(x) == IF x < 0 THEN -x ELSE x
Min(a, b) == IF a <= b THEN a ELSE b
Max(a, b) == IF a >= b THEN a ELSE b

\* a comparison that forgets Math.abs
IsWithinToleranceSigned(date1, date2, toleranceSeconds) ==
    (date1 - date2) * 1000 <= toleranceSeconds * 1000

IsWithinTolerance(date1, date2, toleranceSeconds) ==
    Abs(date1 * 1000 - date2 * 1000) <= toleranceSeconds * 1000

\* alerts.map(...): the four fields of an alert that make an incident
ToIncident(alert) ==
    [startsAt |-> alert.startsAt, host |-> alert.labels.host,
     link |-> alert.labels.link, region |-> alert.labels.region]

\* a sort that puts the latest element first
InsertByStartsAtDesc(sorted, x) ==
    LET before == {i \in 1..Len(sorted) : x.startsAt - sorted[i].startsAt <= 0}
        n == Cardinality(before)
    IN  SubSeq(sorted, 1, n) \o <<x>> \o SubSeq(sorted, n + 1, Len(sorted))

\* where Array.prototype.sort (stable) puts x among sorted elements
InsertByStartsAt(sorted, x) ==
    LET before == {i \in 1..Len(sorted) : sorted[i].startsAt - x.startsAt <= 0}
        n == Cardinality(before)
    IN  SubSeq(sorted, 1, n) \o <<x>> \o SubSeq(sorted, n + 1, Len(sorted))

RECURSIVE SortByStartsAt(_)
SortByStartsAt(xs) ==
    IF xs = <<>> THEN <<>>
    ELSE InsertByStartsAt(SortByStartsAt(SubSeq(xs, 1, Len(xs) - 1)), xs[Len(xs)])

\* the map without the sort
ExtractIncidentsUnsorted(as) == [i \in 1..Len(as) |-> ToIncident(as[i])]

ExtractAndSortIncidents(as) ==
    SortByStartsAt([i \in 1..Len(as) |-> ToIncident(as[i])])

\* group.hosts.includes(incident.host)
HostsInclude(hosts, host) == \E i \in 1..Len(hosts) : hosts[i] = host

\* a find that looks at the start of the span only
FindGroupStartOnly(gs, incident) ==
    LET found == {k \in 1..Len(gs) :
                    /\ gs[k].region = incident.region
                    /\ gs[k].link = incident.link
                    /\ IsWithinTolerance(gs[k].startsAtMin, incident.startsAt,
                                         gamasMassIncidentPeriodSeconds)}
    IN  IF found = {} THEN 0 ELSE CHOOSE k \in found : \A j \in found : k <= j

\* a find that looks at the time window only
FindGroupAnyKey(gs, incident) ==
    LET found == {k \in 1..Len(gs) :
                    \/ IsWithinTolerance(gs[k].startsAtMin, incident.startsAt,
                                         gamasMassIncidentPeriodSeconds)
                    \/ IsWithinTolerance(gs[k].startsAtMax, incident.startsAt,
                                         gamasMassIncidentPeriodSeconds)}
    IN  IF found = {} THEN 0 ELSE CHOOSE k \in found : \A j \in found : k <= j

\* incidentGroups.find(...): the index of the first group the predicate
\* accepts, 0 for undefined
FindGroup(gs, incident) ==
    LET found == {k \in 1..Len(gs) :
                    /\ gs[k].region = incident.region
                    /\ gs[k].link = incident.link
                    /\ \/ IsWithinTolerance(gs[k].startsAtMin, incident.startsAt,
                                            gamasMassIncidentPeriodSeconds)
                       \/ IsWithinTolerance(gs[k].startsAtMax, incident.startsAt,
                                            gamasMassIncidentPeriodSeconds)}
    IN  IF found = {} THEN 0 ELSE CHOOSE k \in found : \A j \in found : k <= j

\* a join that leaves the span as it was
JoinGroupKeepSpan(g, incident) ==
    [g EXCEPT !.hosts = Append(@, incident.host), !.count = @ + 1]

\* hosts.push, count++, startsAtMin / startsAtMax by Math.min / Math.max
JoinGroup(g, incident) ==
    [g EXCEPT !.hosts = Append(@, incident.host),
              !.count = @ + 1,
              !.startsAtMin = Min(@, incident.startsAt),
              !.startsAtMax = Max(@, incident.startsAt)]

\* the group pushed when find() returned undefined
NewGroup(incident) ==
    [region |-> incident.region, link |-> incident.link,
     hosts |-> <<incident.host>>, count |-> 1,
     startsAtMin |-> incident.startsAt, startsAtMax |-> incident.startsAt]

\* a loop body that counts a repeated host again
GroupIncidentCountRepeat(gs, incident, now) ==
    IF ~IsWithinTolerance(incident.startsAt, now, gamasMaxIncidentAgeSeconds)
    THEN gs
    ELSE LET k == FindGroup(gs, incident) IN
         IF k = 0 THEN Append(gs, NewGroup(incident))
         ELSE IF HostsInclude(gs[k].hosts, incident.host)
              THEN [gs EXCEPT ![k].count = @ + 1]
              ELSE [gs EXCEPT ![k] = JoinGroup(@, incident)]

\* a loop body without the hosts.includes test
GroupIncidentPushRepeat(gs, incident, now) ==
    IF ~IsWithinTolerance(incident.startsAt, now, gamasMaxIncidentAgeSeconds)
    THEN gs
    ELSE LET k == FindGroup(gs, incident) IN
         IF k = 0 THEN Append(gs, NewGroup(incident))
         ELSE [gs EXCEPT ![k] = JoinGroup(@, incident)]

\* one iteration of the for..of loop of groupIncidents
GroupIncident(gs, incident, now) ==
    IF ~IsWithinTolerance(incident.startsAt, now, gamasMaxIncidentAgeSeconds)
    THEN gs
    ELSE LET k == FindGroup(gs, incident) IN
         IF k = 0 THEN Append(gs, NewGroup(incident))
         ELSE IF HostsInclude(gs[k].hosts, incident.host)
              THEN gs
              ELSE [gs EXCEPT ![k] = JoinGroup(@, incident)]

RECURSIVE GroupIncidents(_, _)
\* groupIncidents as a whole: the loop over the incidents, from no group
GroupIncidents(incs, now) ==
    IF incs = <<>> THEN <<>>
    ELSE GroupIncident(GroupIncidents(SubSeq(incs, 1, Len(incs) - 1), now),
                       incs[Len(incs)], now)

\* the alerts of the API response
Times == {-1000, 0, 50, 150, 500, 2000}

Alert(t, host, link) ==
    [startsAt |-> t, labels |-> [host |-> host, link |-> link, region |-> <<"r">>]]

\* every host at every recent instant on one link, two hosts long ago and
\* far ahead, and one host on a second link
AlertInputs ==
    {Alert(t, Hosts[h], <<"l">>) : t \in {0, 50, 150, 500}, h \in 1..Len(Hosts)}
        \cup {Alert(t, Hosts[h], <<"l">>) : t \in Times, h \in {1, 3}}
        \cup {Alert(t, Hosts[1], <<"k">>) : t \in {0, 50}}

writerRest == <<exporter, content, prev, dest, tmpDir, tmpFile, wpc, failure,
                callerSaw>>

InitCluster ==
    /\ alerts \in SeqsUpTo(AlertInputs, MaxAlerts)
    /\ incidents = <<>> /\ incNo = 1 /\ memberTimes = <<>> /\ gpc = "sort"
    /\ queueCount = <<>>
    /\ LabelIdle /\ LineIdle /\ WriterIdle /\ CountIdle /\ RunIdle

ExtractAndSort ==
    /\ gpc = "sort"
    /\ incidents' = ExtractAndSortIncidents(alerts)
    /\ gpc' = "loop"
    /\ UNCHANGED <<alerts, incNo, memberTimes, groups, writerRest, queueCount,
                   labelVars, lineVars, countVars, runVars>>

\* the timestamps added per group, kept up with what the loop body did
Recorded(times, old, new, t) ==
    IF Len(new) > Len(old) THEN Append(times, <<t>>)
    ELSE [k \in 1..Len(times) |->
             IF Len(new[k].hosts) > Len(old[k].hosts)
             THEN Append(times[k], t) ELSE times[k]]

GroupStep ==
    /\ gpc = "loop" /\ incNo <= Len(incidents)
    /\ groups' = GroupIncident(groups, incidents[incNo], Now)
    /\ memberTimes' = Recorded(memberTimes, groups, groups',
                               incidents[incNo].startsAt)
    /\ incNo' = incNo + 1
    /\ UNCHANGED <<alerts, incidents, gpc, writerRest, queueCount, labelVars,
                   lineVars, countVars, runVars>>

\* return incidentGroups
GroupReturn ==
    /\ gpc = "loop" /\ incNo > Len(incidents)
    /\ gpc' = "done"
    /\ UNCHANGED <<alerts, incidents, incNo, memberTimes, groups, writerRest,
                   queueCount, labelVars, lineVars, countVars, runVars>>

NextCluster == ExtractAndSort \/ GroupStep \/ GroupReturn

SpecCluster == InitCluster /\ [][NextCluster]_vars

----------------------------------------------------------------------------
(* generateGamasMetrics from the alerts to the rendered text: SpecGamas.     *)

MaxRunAlerts == 4

\* two hosts at three instants on one link, one host on a second link
RunAlertInputs ==
    {Alert(t, Hosts[h], <<"l">>) : t \in {0, 50, 500}, h \in 1..2}
        \cup {Alert(t, Hosts[1], <<"k">>) : t \in {0, 50}}

InitGamas ==
    /\ alerts \in SeqsUpTo(RunAlertInputs, MaxRunAlerts)
    /\ incidents = <<>> /\ incNo = 1 /\ memberTimes = <<>> /\ gpc = "sort"
    /\ exporter = "gamas" /\ groups = <<>> /\ content = <<>>
    /\ prev = File(OldContent) /\ dest = prev
    /\ tmpDir = FALSE /\ tmpFile = NoFile
    /\ wpc = "render" /\ failure = "none" /\ callerSaw = "pending"
    /\ queueCount = <<>>
    /\ LabelIdle /\ LineIdle /\ CountIdle /\ RunIdle

\* line 49, reached when groupIncidents has returned
RenderGroups == gpc = "done" /\ GamasRender

NextGamas == ExtractAndSort \/ GroupStep \/ GroupReturn \/ RenderGroups

SpecGamas == InitGamas /\ [][NextGamas]_vars

----------------------------------------------------------------------------
(* One run of generateNusacontactQueueMetrics: SpecRun.                      *)

MaxRunLines == 3

\* the metric the run takes from the parsed text (line 41)
TargetMetric ==
    <<"i", "n", "b", "o", "x", "_", "w", "a", "i", "t", "i", "n",
      "g", "_", "s", "t", "a", "r", "t", "_", "t", "i", "m", "e">>

\* the lines of the scraped text: two samples of the target metric, a sample
\* of another metric, a line parseAttributes rejects, a comment
RunLineSet ==
    {TargetMetric \o <<"{", "t", "y", "p", "e", "=", "e", "n", "q", "u", "e", "u",
                       "e", "d", ",", "t", "a", "g", "s", "=", "a", "}", " ", "1">>,
     TargetMetric \o <<"{", "t", "y", "p", "e", "=", "d", "o", "n", "e", ",", "t",
                       "a", "g", "s", "=", "a", "}", " ", "1">>,
     <<"u", "p", "{", "}", " ", "1">>,
     <<"m", "{", "=", "}", " ", "1">>,
     <<"#", " ", "c">>}

RunTexts == {Join(ls) : ls \in SeqsUpTo(RunLineSet, MaxRunLines) \ {<<>>}}

InitRun ==
    /\ runPc = "fetch" /\ caught = "none" /\ writerCalls = 0
    /\ promise = "pending"
    /\ tags \in {<<<<"a">>>>, <<<<"b">>, <<"a">>>>}
    /\ metricsData = <<>> /\ sampleNo = 1 /\ countPc = "idle"
    /\ queueCount = <<>>
    /\ exporter = "nusacontact" /\ groups = <<>> /\ content = <<>>
    /\ prev \in {NoFile, File(OldContent)} /\ dest = prev
    /\ tmpDir = FALSE /\ tmpFile = NoFile
    /\ wpc = "idle" /\ failure = "none" /\ callerSaw = "pending"
    /\ LabelIdle /\ LineIdle /\ ClusterIdle

\* line 37: the request is answered with a text
RunFetch ==
    /\ runPc = "fetch"
    /\ text' \in RunTexts
    /\ parsePc' = "split"
    /\ runPc' = "parse"
    /\ UNCHANGED <<lines, lineNo, result, parsed, caught, writerCalls, promise,
                   labelVars, queueCount, writerVars, countVars, clusterVars>>

\* line 37: the request fails and the await throws
RunFetchFails ==
    /\ runPc = "fetch"
    /\ runPc' = "caught" /\ caught' = "fetch"
    /\ UNCHANGED <<writerCalls, promise, labelVars, queueCount, lineVars,
                   writerVars, countVars, clusterVars>>

\* line 41: parseMetricLines threw
RunParseThrew ==
    /\ runPc = "parse" /\ parsePc = "threw"
    /\ runPc' = "caught" /\ caught' = "parse"
    /\ UNCHANGED <<writerCalls, promise, labelVars, queueCount, lineVars,
                   writerVars, countVars, clusterVars>>

\* a run that takes a missing metric for an empty list of samples
RunSelectOrEmpty ==
    /\ runPc = "parse" /\ parsePc = "returned"
    /\ metricsData' = IF TargetMetric \in DOMAIN parsed.value
                      THEN parsed.value[TargetMetric] ELSE <<>>
    /\ sampleNo' = 1 /\ countPc' = "count" /\ runPc' = "count"
    /\ UNCHANGED <<caught, tags, writerCalls, promise, labelVars, queueCount,
                   lineVars, writerVars, clusterVars>>

\* lines 41 and 43: the destructuring, and `.filter` on its result, which is
\* a TypeError when the text has no sample of the metric
RunSelect ==
    /\ runPc = "parse" /\ parsePc = "returned"
    /\ IF TargetMetric \in DOMAIN parsed.value
       THEN /\ metricsData' = parsed.value[TargetMetric]
            /\ sampleNo' = 1 /\ countPc' = "count" /\ runPc' = "count"
            /\ UNCHANGED caught
       ELSE /\ runPc' = "caught" /\ caught' = "select"
            /\ UNCHANGED <<metricsData, sampleNo, countPc>>
    /\ UNCHANGED <<tags, writerCalls, promise, labelVars, queueCount, lineVars,
                   writerVars, clusterVars>>

\* lines 52-56: the counting is over, writeMetricsFile is called
RunCallWriter ==
    /\ runPc = "count" /\ countPc = "done"
    /\ writerCalls' = writerCalls + 1
    /\ wpc' = "render"
    /\ runPc' = "write"
    /\ UNCHANGED <<caught, promise, exporter, groups, content, prev, dest,
                   tmpDir, tmpFile, failure, callerSaw, labelVars, queueCount,
                   lineVars, countVars, clusterVars>>

\* writeMetricsFile is over: it returned, or mkdtempSync threw
RunWriterDone ==
    /\ runPc = "write" /\ wpc = "done"
    /\ IF callerSaw = "threw"
       THEN runPc' = "caught" /\ caught' = "writer" /\ UNCHANGED promise
       ELSE runPc' = "done" /\ promise' = "resolved" /\ UNCHANGED caught
    /\ UNCHANGED <<writerCalls, labelVars, queueCount, lineVars, writerVars,
                   countVars, clusterVars>>

\* lines 57-59: the catch block logs and the function returns
RunCatch ==
    /\ runPc = "caught"
    /\ runPc' = "done" /\ promise' = "resolved"
    /\ UNCHANGED <<caught, writerCalls, labelVars, queueCount, lineVars,
                   writerVars, countVars, clusterVars>>

NextRun ==
    \/ RunFetch \/ RunFetchFails
    \/ SplitLines \/ LoopLine \/ ReturnResult \/ RunParseThrew
    \/ RunSelect \/ CountSample \/ CountEnd
    \/ RunCallWriter \/ NusaRender \/ FileMkdtemp \/ FileMkdtempFails
    \/ FileWrite \/ FileWriteFails \/ FileRename \/ FileRenameFails
    \/ FileFinally \/ RunWriterDone
    \/ RunCatch

SpecRun == InitRun /\ [][NextRun]_vars

----------------------------------------------------------------------------
(* The label parser's claims, under SpecLabel. *)

\* C1: a scan that ends in IN_QUOTE (a quote opened and never closed) makes
\* parseAttributes fail: it throws and returns no LabelSet.
C1_UnterminatedQuoteFails ==
    (ps.status # "scanning" /\ ps.state = IN_QUOTE) => ps.status = "threw"

CommittedNames == {ps.commits[i][1] : i \in 1..Len(ps.commits)}

LastCommitOf(name) ==
    CHOOSE i \in 1..Len(ps.commits) :
        /\ ps.commits[i][1] = name
        /\ \A j \in (i + 1)..Len(ps.commits) : ps.commits[j][1] # name

\* C10: the LabelSet returned for an accepted fragment has exactly one entry
\* per distinct name committed during the scan, whose value is the value of the
\* last pair committed for that name.
C10_LastWriteWins ==
    ps.status = "returned" =>
        /\ DOMAIN ps.attrs = CommittedNames
        /\ \A name \in CommittedNames :
              ps.attrs[name] = ps.commits[LastCommitOf(name)][2]

----------------------------------------------------------------------------
(* The exposition parser's claims, under SpecLines. *)

\* the lines the loop has gone through
Processed == 1..(lineNo - 1)

NoBrace(line) == IndexOf(line, "{") = -1 /\ IndexOf(line, "}") = -1

NameOf(line) == SubSeq(line, 1, IndexOf(line, " "))
AfterName(line) == SubSeq(line, IndexOf(line, " ") + 2, Len(line))

\* a line of the form `metricName <float>`
PlainLine(line) ==
    /\ ~StartsWith(line, "#")
    /\ NoBrace(line)
    /\ IndexOf(line, " ") > 0
    /\ ~ParseFloat(AfterName(line)).nan

\* C2: every non-comment line `metricName <float>` without `{` and `}` gives a
\* Sample filed under that metric name, with an empty LabelSet and the value
\* parsed from the text after the name.
C2_PlainLineSample ==
    \A i \in Processed :
        PlainLine(lines[i]) =>
            /\ NameOf(lines[i]) \in DOMAIN result
            /\ \E k \in 1..Len(result[NameOf(lines[i])]) :
                  result[NameOf(lines[i])][k]
                      = [labels |-> EmptyObj,
                         value |-> ParseFloat(AfterName(lines[i]))]

AfterBrace(line) == SubSeq(line, IndexOf(line, "}") + 2, Len(line))

\* C3: a data line whose text after the closing `}` is not a number makes the
\* parse fail, and no Sample with a NaN value is ever stored.
C3_InvalidValueFails ==
    /\ \A i \in Processed :
          (~StartsWith(lines[i], "#") /\ IndexOf(lines[i], "}") >= 0)
              => ~ParseFloat(AfterBrace(lines[i])).nan
    /\ \A name \in DOMAIN result :
          \A k \in 1..Len(result[name]) : ~result[name][k].value.nan

\* the label fragment parseMetricLines hands to parseAttributes
LabelFragment(line) ==
    Trim(Substring(line, IndexOf(line, "{") + 1, IndexOf(line, "}")))

Rejected(line) ==
    ~StartsWith(line, "#") /\ ParseAttributes(LabelFragment(line)).status = "threw"

BadLines == {i \in 1..Len(lines) : Rejected(lines[i])}

\* C4: when the label fragment of some line is rejected by parseAttributes,
\* the loop never gets past the first such line, parseMetricLines does not
\* return, and its caller receives no result, wherever the line is.
C4_MalformedLineAborts ==
    BadLines # {} =>
        /\ parsePc # "returned"
        /\ parsed = NoResult
        /\ \A i \in BadLines : lineNo <= i

\* a rejected line in the middle of the text, with a sample stored before it
C4_Witness ==
    /\ parsePc = "threw"
    /\ 1 < lineNo /\ lineNo < Len(lines)
    /\ lineNo \in BadLines
    /\ result # EmptyObj
    /\ parsed = NoResult

----------------------------------------------------------------------------
(* The round trip, under SpecRoundTrip. *)

TagOk(tag) == \A i \in 1..Len(tag) : tag[i] \notin {"\"", ",", " ", "\t", "\n"}

RenderedSamples ==
    IF MetricName \in DOMAIN result THEN result[MetricName] ELSE <<>>

TagLabel == <<"t", "a", "g">>

\* C9: for tags without `"`, `,` and white space, parsing the rendered text
\* gives, under the metric name, one sample per entry of the mapping, whose
\* label `tag` is the tag and whose value is the count.
C9_RoundTrip ==
    (parsePc \in {"returned", "threw"}
        /\ \A i \in 1..Len(queueCount) : TagOk(queueCount[i].tag))
    => /\ parsePc = "returned"
       /\ Len(RenderedSamples) = Len(queueCount)
       /\ \A i \in 1..Len(queueCount) :
             \E k \in 1..Len(RenderedSamples) :
                 /\ TagLabel \in DOMAIN RenderedSamples[k].labels
                 /\ RenderedSamples[k].labels[TagLabel] = queueCount[i].tag
                 /\ RenderedSamples[k].value = Num(queueCount[i].count, 0)

----------------------------------------------------------------------------
(* The writers' claims, under SpecExport. *)

\* C5: at every step of a write by either writer, failed steps included, the
\* destination holds the complete previous content or the complete new
\* content, and it is changed only by the rename step, taken when the
\* temporary file holds the complete new content.
C5_AtomicReplace ==
    [][/\ dest' \in {prev, File(content')}
       /\ dest' # dest =>
             /\ wpc = "rename"
             /\ tmpFile = File(content)
             /\ dest' = File(content)]_vars

\* a run that replaced the previous content
C5_Witness ==
    /\ wpc = "done" /\ failure = "none"
    /\ dest = File(content) /\ dest # prev /\ content # <<>>

\* C6: once the temporary directory has been created, it is gone when the
\* writer is left, by return or by exception.
C6_TmpDirRemoved ==
    (wpc = "done" /\ failure # "mkdtemp") => ~tmpDir

\* C7: a failed mkdtemp, write or rename is reported to the writer's caller,
\* and the destination is left as it was.
C7_FailureReported ==
    (wpc = "done" /\ failure # "none") => (callerSaw = "threw" /\ dest = prev)

\* C8: after a run of either exporter the file at the destination path is
\* never zero-byte.
C8_NeverZeroByte ==
    wpc = "done" => ~(dest.exists /\ dest.data = <<>>)

----------------------------------------------------------------------------
(* Data lines with a label fragment (SpecLines). *)

RECURSIVE ClosingBraceFrom(_, _, _)
\* 1-based position of the first `}` at or after position i that is outside
\* a quoted value (q is the open quote character, "" when none); 0 when none
ClosingBraceFrom(line, i, q) ==
    IF i > Len(line) THEN 0
    ELSE IF q # "" THEN ClosingBraceFrom(line, i + 1, IF line[i] = q THEN "" ELSE q)
    ELSE IF line[i] = "}" THEN i
    ELSE IF line[i] \in {"\"", "'"} THEN ClosingBraceFrom(line, i + 1, line[i])
    ELSE ClosingBraceFrom(line, i + 1, "")

OpenBrace(line) == IndexOf(line, "{") + 1
ClosingBrace(line) == ClosingBraceFrom(line, OpenBrace(line) + 1, "")
WholeFragment(line) == SubSeq(line, OpenBrace(line) + 1, ClosingBrace(line) - 1)
NameBeforeBrace(line) == SubSeq(line, 1, OpenBrace(line) - 1)
AfterClosingBrace(line) == SubSeq(line, ClosingBrace(line) + 1, Len(line))

\* a line `name{fragment} value` whose fragment parseAttributes accepts
LabelledLine(line) ==
    /\ ~StartsWith(line, "#")
    /\ OpenBrace(line) > 0
    /\ ClosingBrace(line) > 0
    /\ ParseAttributes(WholeFragment(line)).status = "returned"
    /\ ~ParseFloat(AfterClosingBrace(line)).nan

\* C11: a data line `name{fragment} value` whose fragment is accepted by the
\* label parser, a `}` or `{` inside a quoted value included, gives a Sample
\* filed under the text before the first `{`, with the labels the label parser
\* returns for the whole fragment and the number after the closing `}`.
C11_LabelledLineSample ==
    \A i \in Processed :
        LabelledLine(lines[i]) =>
            /\ NameBeforeBrace(lines[i]) \in DOMAIN result
            /\ \E k \in 1..Len(result[NameBeforeBrace(lines[i])]) :
                  result[NameBeforeBrace(lines[i])][k]
                      = [labels |-> ParseAttributes(WholeFragment(lines[i])).attrs,
                         value |-> ParseFloat(AfterClosingBrace(lines[i]))]

----------------------------------------------------------------------------
(* The counting pass (SpecCount). *)

\* the samples seen so far that the pass has to count for a tag
Matching(tag) ==
    {i \in 1..(sampleNo - 1) :
        /\ TypeKey \in DOMAIN metricsData[i].labels
        /\ metricsData[i].labels[TypeKey] = Enqueued
        /\ TagsKey \in DOMAIN metricsData[i].labels
        /\ Includes(metricsData[i].labels[TagsKey], tag)}

EntriesOf(tag) == {i \in 1..Len(queueCount) : queueCount[i].tag = tag}

AllowedNow == {tags[i] : i \in 1..Len(tags)}

----------------------------------------------------------------------------
(* The clustering pass (SpecCluster). *)

\* the loop of groupIncidents is about to process an event
AtEvent == gpc = "loop" /\ incNo <= Len(incidents)
Event == incidents[incNo]

\* C13: an event with now - timestamp > horizon is discarded: processing it
\* creates no group, adds no member, widens no span and changes no count.
C13_OldEventDiscarded ==
    [][(AtEvent /\ Now - Event.startsAt > gamasMaxIncidentAgeSeconds)
           => (groups' = groups /\ memberTimes' = memberTimes)]_vars

\* an old event has been passed over between two events that were kept
C13_Witness ==
    /\ gpc = "done" /\ Len(groups) = 1 /\ groups[1].count = 2
    /\ \E i \in 1..Len(incidents) :
          /\ Now - incidents[i].startsAt > gamasMaxIncidentAgeSeconds
          /\ incidents[i].link = groups[1].link
          /\ ~HostsInclude(groups[1].hosts, incidents[i].host)

\* the group and the event have the same key and the event lies within the
\* tolerance of the start or the end of the group's span
Matches(g, e) ==
    /\ g.region = e.region /\ g.link = e.link
    /\ \/ (g.startsAtMin - e.startsAt <= gamasMassIncidentPeriodSeconds
            /\ e.startsAt - g.startsAtMin <= gamasMassIncidentPeriodSeconds)
       \/ (g.startsAtMax - e.startsAt <= gamasMassIncidentPeriodSeconds
            /\ e.startsAt - g.startsAtMax <= gamasMassIncidentPeriodSeconds)

Matched(e) == {k \in 1..Len(groups) : Matches(groups[k], e)}

\* C14: when an event matches a group that already contains its host,
\* processing it changes nothing: no member, count or span changes, no other
\* group changes and no group is created.
C14_RepeatIsNoOp ==
    [][(AtEvent /\ \E k \in Matched(Event) :
                      HostsInclude(groups[k].hosts, Event.host))
           => (groups' = groups /\ memberTimes' = memberTimes)]_vars

\* a host was observed again, later, inside the span of its group
C14_Witness ==
    /\ gpc = "done" /\ Len(incidents) = 3 /\ Len(groups) = 1
    /\ groups[1].count = 2
    /\ incidents[3].host = incidents[1].host
    /\ incidents[3].startsAt > incidents[1].startsAt

\* the events the horizon filter keeps
Retained(e) ==
    /\ Now - e.startsAt <= gamasMaxIncidentAgeSeconds
    /\ e.startsAt - Now <= gamasMaxIncidentAgeSeconds

Earliest(S) == CHOOSE k \in S : \A j \in S : k <= j

\* C15: a retained event goes to the earliest-created group with its
\* (region, link) whose span start or span end is within tolerance seconds
\* of its timestamp (bounds included), every other group staying as it was;
\* a new group with the event as its only member and spanStart = spanEnd =
\* the event's timestamp is appended exactly when there is no such group.
C15_JoinsEarliestMatch ==
    [][(AtEvent /\ Retained(Event)) =>
          IF Matched(Event) # {}
          THEN /\ Len(groups') = Len(groups)
               /\ HostsInclude(groups'[Earliest(Matched(Event))].hosts, Event.host)
               /\ \A j \in 1..Len(groups) :
                     j # Earliest(Matched(Event)) => groups'[j] = groups[j]
          ELSE groups' = Append(groups,
                   [region |-> Event.region, link |-> Event.link,
                    hosts |-> <<Event.host>>, count |-> 1,
                    startsAtMin |-> Event.startsAt,
                    startsAtMax |-> Event.startsAt])]_vars

\* (t=0, A), (t=50, B), (t=500, C) with one key give {A, B} over [0, 50] and
\* {C} over [500, 500]
C15_Witness ==
    /\ gpc = "done"
    /\ incidents = <<[startsAt |-> 0, host |-> "h1", link |-> <<"l">>, region |-> <<"r">>],
                     [startsAt |-> 50, host |-> "h2", link |-> <<"l">>, region |-> <<"r">>],
                     [startsAt |-> 500, host |-> "h3", link |-> <<"l">>, region |-> <<"r">>]>>
    /\ groups = <<[region |-> <<"r">>, link |-> <<"l">>, hosts |-> <<"h1", "h2">>,
                   count |-> 2, startsAtMin |-> 0, startsAtMax |-> 50],
                  [region |-> <<"r">>, link |-> <<"l">>, hosts |-> <<"h3">>,
                   count |-> 1, startsAtMin |-> 500, startsAtMax |-> 500]>>

\* C16: in every state of a clustering pass no group lists a host twice and
\* every group's count is the number of its members.
C16_DistinctMembers ==
    \A k \in 1..Len(groups) :
        /\ \A i, j \in 1..Len(groups[k].hosts) :
              i # j => groups[k].hosts[i] # groups[k].hosts[j]
        /\ groups[k].count = Len(groups[k].hosts)

\* a group of two hosts, one of which was reported twice
C16_Witness ==
    /\ gpc = "done" /\ Len(incidents) = 3 /\ Len(groups) = 1
    /\ Len(groups[1].hosts) = 2
    /\ incidents[2].host = incidents[1].host
    /\ incidents[3].host # incidents[1].host

\* C17: in every state every group has startsAtMin <= startsAtMax, and the
\* timestamp of every event added to a group lies within the group's span.
C17_SpanCoversMembers ==
    /\ Len(memberTimes) = Len(groups)
    /\ \A k \in 1..Len(groups) :
          /\ groups[k].startsAtMin <= groups[k].startsAtMax
          /\ Len(memberTimes[k]) = Len(groups[k].hosts)
          /\ \A i \in 1..Len(memberTimes[k]) :
                /\ groups[k].startsAtMin <= memberTimes[k][i]
                /\ memberTimes[k][i] <= groups[k].startsAtMax

\* a span widened twice
C17_Witness ==
    /\ gpc = "done" /\ Len(groups) = 1
    /\ memberTimes[1] = <<0, 50, 150>>
    /\ groups[1].startsAtMin = 0 /\ groups[1].startsAtMax = 150

----------------------------------------------------------------------------
(* Samples and lines (SpecLines). *)

LineName(line) == Trim(Substring(line, 0, IndexOf(line, "{")))

LineSample(line) ==
    [labels |-> ParseAttributes(LabelFragment(line)).attrs,
     value |-> ParseFloat(Trim(SubstringFrom(line, IndexOf(line, "}") + 1)))]

DataLinesDone == {i \in Processed : ~StartsWith(lines[i], "#")}

RECURSIVE SamplesOf(_, _)
\* the samples of the data lines 1..n filed under `name`, in line order
SamplesOf(name, n) ==
    IF n = 0 THEN <<>>
    ELSE IF ~StartsWith(lines[n], "#") /\ LineName(lines[n]) = name
         THEN Append(SamplesOf(name, n - 1), LineSample(lines[n]))
         ELSE SamplesOf(name, n - 1)

StoredSamples ==
    UNION {{<<name, k>> : k \in 1..Len(result[name])} : name \in DOMAIN result}

\* C18: the result of parseMetricLines holds exactly one Sample per line that
\* does not start with `#` (a `#` line gives nothing and its content is never
\* looked at), and under each metric name the samples are in line order; the
\* same holds of the lines done so far while the loop runs.
C18_OneSamplePerDataLine ==
    parsePc \in {"loop", "returned"} =>
        /\ Cardinality(StoredSamples) = Cardinality(DataLinesDone)
        /\ DOMAIN result = {LineName(lines[i]) : i \in DataLinesDone}
        /\ \A name \in DOMAIN result :
              result[name] = SamplesOf(name, lineNo - 1)
        /\ parsePc = "returned" => parsed = [ok |-> TRUE, value |-> result]

\* two samples of one metric around a comment whose braces hold no labels
C18_Witness ==
    /\ parsePc = "returned"
    /\ Len(lines) = 3
    /\ StartsWith(lines[2], "#") /\ Rejected(Tail(lines[2]))
    /\ LineName(lines[1]) = LineName(lines[3])
    /\ LineSample(lines[1]) # LineSample(lines[3])
    /\ Len(parsed.value[LineName(lines[1])]) = 2

----------------------------------------------------------------------------
(* The label parser's failures (SpecLabel). *)

\* the scan is about to read a character
AtChar == ps.status = "scanning" /\ pos <= Len(input)

Whitespace == {" ", "\t", "\n"}

\* C19: the label parser fails whenever the scan meets `=` in INITIAL or a
\* whitespace character in READING_NAME, and in INITIAL every whitespace
\* character and every `,` is skipped: the scan stays in INITIAL with its
\* buffers and labels as they were.
C19_RejectsEqualsAndSpace ==
    [][AtChar =>
          /\ (ps.state = INITIAL /\ input[pos] = "=") => ps'.status = "threw"
          /\ (ps.state = READING_ATTR /\ input[pos] \in Whitespace)
                => ps'.status = "threw"
          /\ (ps.state = INITIAL /\ input[pos] \in Whitespace \cup {","})
                => ps' = ps]_vars

\* the scan is at the end of the input
AtEnd == ps.status = "scanning" /\ pos > Len(input)

\* C20: a scan that ends in READING_NAME or AFTER_SEPARATOR fails with
\* "Input ended unexpectedly"; a scan that ends in INITIAL succeeds with the
\* labels it has; a scan that ends in READING_BARE_VALUE commits the pending
\* name and value and succeeds: commitAttribute runs on them, the other
\* labels stay, and the pair is in the result unless the name is one that a
\* plain object does not store (C10).
C20_EndOfScan ==
    [][AtEnd =>
          /\ ps.state \in {READING_ATTR, AFTER_SEP} =>
                /\ ps'.status = "threw"
                /\ ps'.error = "Input ended unexpectedly"
                /\ ps'.commits = ps.commits
          /\ ps.state = INITIAL =>
                ps' = [ps EXCEPT !.status = "returned"]
          /\ ps.state = READING_VALUE =>
                /\ ps'.status = "returned"
                /\ ps'.commits = Append(ps.commits, <<ps.attrBuf, ps.valBuf>>)
                /\ ps.attrBuf \notin InheritedKeys =>
                      /\ ps.attrBuf \in DOMAIN ps'.attrs
                      /\ ps'.attrs[ps.attrBuf] = ps.valBuf
                /\ \A name \in DOMAIN ps.attrs :
                      name # ps.attrBuf =>
                          name \in DOMAIN ps'.attrs
                              /\ ps'.attrs[name] = ps.attrs[name]]_vars

\* `a=x,a=` has ended after the separator, with one pair committed before
C20_Witness ==
    /\ ps.status = "threw" /\ ps.error = "Input ended unexpectedly"
    /\ ps.state = AFTER_SEP /\ pos > Len(input)
    /\ Len(ps.commits) = 1

----------------------------------------------------------------------------
(* Quoted and bare values (SpecLabel). *)

Chars(v) == {v[i] : i \in 1..Len(v)}

\* C21: in IN_QUOTE only the quote character that opened the value closes it:
\* any other character (whitespace, `,`, `=`, the other quote character) is
\* appended to the value and nothing else changes; the closing character
\* commits the value as it is, without the opening or the closing quote
\* character in it.
C21_QuotedValueLiteral ==
    /\ [](ps.state = IN_QUOTE => ps.quote \notin Chars(ps.valBuf))
    /\ [][(AtChar /\ ps.state = IN_QUOTE) =>
             IF input[pos] = ps.quote
             THEN /\ ps'.commits = Append(ps.commits, <<ps.attrBuf, ps.valBuf>>)
                  /\ ps'.state = INITIAL /\ ps'.status = "scanning"
                  /\ ps.attrBuf \notin InheritedKeys =>
                        /\ ps.attrBuf \in DOMAIN ps'.attrs
                        /\ ps'.attrs[ps.attrBuf] = ps.valBuf
             ELSE ps' = [ps EXCEPT !.valBuf = Append(@, input[pos])]]_vars

\* a="'" was read: the other quote character is the whole value
C21_Witness ==
    /\ ps.status = "returned" /\ ps.quote = "\""
    /\ ps.commits = <<<<<<"a">>, <<"'">>>>>>
    /\ ps.attrs[<<"a">>] = <<"'">>

\* C22: a value that came from a bare (unquoted) run holds no whitespace
\* character and no `,` when it is committed, whatever follows the `=`.
C22_BareValueClean ==
    [][(ps.status = "scanning" /\ ps.state = READING_VALUE
           /\ Len(ps'.commits) > Len(ps.commits))
          => Chars(ps'.commits[Len(ps'.commits)][2]) \cap (Whitespace \cup {","}) = {}]_vars

----------------------------------------------------------------------------
(* Horizon, order and chains (SpecCluster). *)

\* C23: at the end of the pass every event with now - timestamp <= horizon,
\* an event lying after now by more than the horizon included, has its host
\* in some group with its region and link.
C23_NotOldRetained ==
    gpc = "done" =>
        \A i \in 1..Len(incidents) :
            Now - incidents[i].startsAt <= gamasMaxIncidentAgeSeconds =>
                \E k \in 1..Len(groups) :
                    /\ groups[k].region = incidents[i].region
                    /\ groups[k].link = incidents[i].link
                    /\ HostsInclude(groups[k].hosts, incidents[i].host)

IndexPermutations(n) ==
    {f \in [1..n -> 1..n] : \A i, j \in 1..n : i # j => f[i] # f[j]}

DistinctTimes(as) ==
    \A i, j \in 1..Len(as) : i # j => as[i].startsAt # as[j].startsAt

Ascending(incs) ==
    \A i, j \in 1..Len(incs) : i < j => incs[i].startsAt <= incs[j].startsAt

\* C24: the loop of groupIncidents sees the events in ascending timestamp
\* order whatever the order of the alerts, and for alerts with pairwise
\* distinct timestamps every permutation of the alert list gives, through
\* extractAndSortIncidents and groupIncidents, the same sequence of groups.
C24_OrderIndependent ==
    /\ gpc \in {"loop", "done"} => Ascending(incidents)
    /\ (gpc = "done" /\ DistinctTimes(alerts)) =>
          \A f \in IndexPermutations(Len(alerts)) :
              GroupIncidents(
                  ExtractAndSortIncidents([i \in 1..Len(alerts) |-> alerts[f[i]]]),
                  Now) = groups

\* three alerts given latest first, clustered into two groups
C24_Witness ==
    /\ gpc = "done" /\ Len(alerts) = 3 /\ DistinctTimes(alerts)
    /\ alerts[1].startsAt > alerts[2].startsAt
    /\ alerts[2].startsAt > alerts[3].startsAt
    /\ Len(groups) = 2 /\ groups[1].count = 2

\* events of one key and different hosts, all kept by the horizon filter,
\* each within the tolerance of the one before
Chain(incs) ==
    /\ Len(incs) >= 2
    /\ \A i \in 1..Len(incs) :
          /\ incs[i].region = incs[1].region /\ incs[i].link = incs[1].link
          /\ Retained(incs[i])
    /\ \A i, j \in 1..Len(incs) : i # j => incs[i].host # incs[j].host
    /\ \A i \in 1..(Len(incs) - 1) :
          incs[i + 1].startsAt - incs[i].startsAt <= gamasMassIncidentPeriodSeconds

\* C26: a chain of events ends up in one group that contains all of them and
\* spans from the first to the last, however far apart these two are; so a
\* span can be wider than the tolerance.
C26_ChainOneGroup ==
    (gpc = "done" /\ Chain(incidents)) =>
        /\ Len(groups) = 1
        /\ \A i \in 1..Len(incidents) :
              HostsInclude(groups[1].hosts, incidents[i].host)
        /\ groups[1].startsAtMin = incidents[1].startsAt
        /\ groups[1].startsAtMax = incidents[Len(incidents)].startsAt

\* a chain whose group is wider than the tolerance
C26_Witness ==
    /\ gpc = "done" /\ Chain(incidents) /\ Len(groups) = 1
    /\ groups[1].count = Len(incidents)
    /\ groups[1].startsAtMax - groups[1].startsAtMin
          > gamasMassIncidentPeriodSeconds

SameKey(g, e) == g.region = e.region /\ g.link = e.link

\* the index of the last group with the event's key, 0 when there is none
LastOfKey(gs, e) ==
    LET S == {k \in 1..Len(gs) : SameKey(gs[k], e)}
    IN  IF S = {} THEN 0 ELSE CHOOSE k \in S : \A j \in S : j <= k

\* the loop body with the test `timestamp - spanEnd <= tolerance` on the
\* last group of the key
GroupIncidentEndOnly(gs, e) ==
    IF ~Retained(e) THEN gs
    ELSE LET k == LastOfKey(gs, e) IN
         IF k = 0 \/ e.startsAt - gs[k].startsAtMax > gamasMassIncidentPeriodSeconds
         THEN Append(gs, [region |-> e.region, link |-> e.link,
                          hosts |-> <<e.host>>, count |-> 1,
                          startsAtMin |-> e.startsAt, startsAtMax |-> e.startsAt])
         ELSE IF HostsInclude(gs[k].hosts, e.host) THEN gs
         ELSE [gs EXCEPT ![k] =
                  [@ EXCEPT !.hosts = Append(@, e.host), !.count = @ + 1,
                            !.startsAtMax = e.startsAt]]

RECURSIVE GroupsEndOnly(_)
GroupsEndOnly(incs) ==
    IF incs = <<>> THEN <<>>
    ELSE GroupIncidentEndOnly(GroupsEndOnly(SubSeq(incs, 1, Len(incs) - 1)),
                              incs[Len(incs)])

\* C27: with the events in ascending timestamp order, an event only ever
\* joins the last group of its key, the start of a span never changes, two
\* groups of one key lie more than the tolerance apart, and the groups are
\* those of the loop that tests `timestamp - spanEnd <= tolerance` on the
\* last group of the key.
C27_EndOnlyEquivalent ==
    /\ [](\A j, k \in 1..Len(groups) :
             (j < k /\ groups[j].region = groups[k].region
                    /\ groups[j].link = groups[k].link)
                => groups[k].startsAtMin - groups[j].startsAtMax
                       > gamasMassIncidentPeriodSeconds)
    /\ [](gpc \in {"loop", "done"} =>
             groups = GroupsEndOnly(SubSeq(incidents, 1, incNo - 1)))
    /\ [][AtEvent =>
             \A k \in 1..Len(groups) :
                 /\ groups'[k].startsAtMin = groups[k].startsAtMin
                 /\ groups'[k] # groups[k] => k = LastOfKey(groups, Event)]_vars

\* a key with two groups, the first of which a later event joined before
\* the second was created
C27_Witness ==
    /\ gpc = "done" /\ Len(groups) = 2
    /\ groups[1].link = groups[2].link
    /\ groups[1].hosts = <<"h2", "h1">>
    /\ groups[1].startsAtMax > groups[1].startsAtMin
    /\ groups[2].startsAtMin - groups[1].startsAtMax
          > gamasMassIncidentPeriodSeconds

----------------------------------------------------------------------------
(* Threshold and rendering (SpecGamas). *)

OverThreshold(g) == g.count > gamasMassIncidentCountThreshold

Rendered == exporter = "gamas" /\ wpc = "mkdtemp"

\* C25: the threshold is applied after the clustering pass only. Nothing is
\* rendered before the pass is over; during the pass no group is dropped, no
\* count falls, and an event with a matching group creates no group whatever
\* that group's count; the rendered text has one line for exactly each group
\* whose final count is greater than the threshold, in creation order.
C25_ThresholdAfterClustering ==
    /\ [](gpc # "done" => (wpc = "render" /\ content = <<>>))
    /\ [](Rendered =>
             LET over == SelectSeq(groups, OverThreshold)
             IN /\ content = Join([i \in 1..Len(over) |-> FormatGroup(over[i])])
                /\ over # <<>> => Len(Split(content)) = Len(over))
    /\ [][AtEvent =>
             /\ Len(groups') >= Len(groups)
             /\ \A k \in 1..Len(groups) : groups'[k].count >= groups[k].count
             /\ (Retained(Event) /\ Matched(Event) # {})
                   => Len(groups') = Len(groups)]_vars

\* two groups that each grew from one member to two were rendered, the
\* earlier one first
C25_Witness ==
    /\ Rendered /\ Len(groups) = 2
    /\ groups[1].count = 2 /\ groups[2].count = 2
    /\ groups[1].link = groups[2].link
    /\ Split(content) = <<FormatGroup(groups[1]), FormatGroup(groups[2])>>

----------------------------------------------------------------------------
(* The run of the queue exporter (SpecRun). *)

\* the text the run parsed has no sample of the target metric
NoTargetSample ==
    parsePc = "returned" /\ TargetMetric \notin DOMAIN parsed.value

\* C28: writeMetricsFile is called at most once per run, and only when the
\* fetch succeeded, parseMetricLines returned and the counting pass is over;
\* when the fetch fails, a line fails to parse or the text has no sample of
\* the target metric, the writer is not called and the destination keeps its
\* previous content; the promise is never rejected and a finished run has
\* resolved it.
C28_WriteOnlyAfterSuccess ==
    runPc # "idle" =>
        /\ writerCalls <= 1
        /\ writerCalls = 1 =>
              /\ parsePc = "returned" /\ countPc = "done"
              /\ TargetMetric \in DOMAIN parsed.value
              /\ caught \in {"none", "writer"}
        /\ (caught \in {"fetch", "parse", "select"} \/ parsePc = "threw"
               \/ NoTargetSample)
              => /\ writerCalls = 0 /\ wpc = "idle"
                 /\ dest = prev /\ tmpDir = FALSE /\ tmpFile = NoFile
        /\ writerCalls = 0 => dest = prev
        /\ promise # "rejected"
        /\ runPc = "done" <=> promise = "resolved"

\* the run is over: the text had a sample of another metric only, the
\* writer was not called and the old file is still there
C28_Witness ==
    /\ runPc = "done" /\ promise = "resolved" /\ caught = "select"
    /\ Len(lines) = 1 /\ DOMAIN parsed.value = {<<"u", "p">>}
    /\ writerCalls = 0 /\ dest = File(OldContent)

============================================================================
